---------------------------- MODULE Spec2Model ----------------------------
(***************************************************************************)
(* Model of scripts/run-e2-api-tests.py: the E2 backend API test runner.   *)
(*                                                                         *)
(* The runner is single-threaded.  main() walks the test plan, run_test()  *)
(* executes one test case: static skip check, bootstrap login             *)
(* (ensure_login), warm-up calls of a repeated case, placeholder           *)
(* resolution, the primary HTTP call, state capture and assertions.        *)
(* The server under test is the environment: every HTTP exchange draws its *)
(* response (or a transport failure) from a bounded set.                   *)
(*                                                                         *)
(* Python values are modelled as tagged records, so that a dict, a str, a  *)
(* number, None and a list stay distinguishable (the code's .get() raises  *)
(* on a non-dict, str.replace raises on a non-str).  Python strings are    *)
(* sequences of character tokens, so that the text substitution of         *)
(* resolve_body and the JSON round trip are computed, not assumed.         *)
(***************************************************************************)
EXTENDS Integers, Sequences, FiniteSets, TLC

VARIABLES
    state,      \* the State instance (line 51)
    pc,         \* position of the single thread of control
    tc,         \* the test case (with its endpoint's auth_required) being run
    calls,      \* ensure_login() calls run_test still has to make
    pair,       \* index of the credential pair ensure_login tries next
    warm,       \* warm-up calls still to issue
    sent,       \* HTTP requests issued while running the current case
    exch,       \* the HTTP exchange performed by the last step
    held,       \* history: credential last returned by a test-case login/refresh
    result,     \* the Result run_test returned
    results,    \* main(): status of every Result appended so far
    total, passed, failed, skipped,  \* main(): running counters
    output,     \* the argument of write_markdown_report
    report      \* the report write_markdown_report wrote

vars == <<state, pc, tc, calls, pair, warm, sent, exch, held, result,
          results, total, passed, failed, skipped, output, report>>

---------------------------------------------------------------------------
(* Bounds of the model *)

MaxCases == 2       \* test cases in the plan
MaxRepeat == 2      \* largest declared repeat count
MaxResults == 3     \* Results in the output handed to the report writer

---------------------------------------------------------------------------
(* Python / JSON values *)

JNull == [t |-> "null"]
JBool(b) == [t |-> "bool", b |-> b]
JTrue == JBool(TRUE)
JFalse == JBool(FALSE)
Str(s) == [t |-> "str", s |-> s]
Num(n) == [t |-> "num", n |-> n]
Obj(o) == [t |-> "obj", o |-> o]
JList(l) == [t |-> "list", l |-> l]
EmptyDict == Obj(<<>>)

\* bool(x) of a Python value
Truthy(j) ==
    CASE j.t = "null" -> FALSE
      [] j.t = "bool" -> j.b
      [] j.t = "str"  -> j.s # <<>>
      [] j.t = "num"  -> j.n # 0
      [] j.t = "obj"  -> DOMAIN j.o # {}
      [] j.t = "list" -> j.l # <<>>

IsDict(j) == j.t = "obj"
IsStr(j) == j.t = "str"

\* dict.get(k, d); only dicts have it
PyGet(j, k, d) == IF k \in DOMAIN j.o THEN j.o[k] ELSE d

\* a or b
PyOr(a, b) == IF Truthy(a) THEN a ELSE b

\* str(x) as used by an f-string
PyStr(j) ==
    CASE j.t = "null" -> <<"None">>
      [] j.t = "bool" -> IF j.b THEN <<"True">> ELSE <<"False">>
      [] j.t = "str"  -> j.s
      [] j.t = "num"  -> <<ToString(j.n)>>
      [] j.t = "obj"  -> <<"{...}">>
      [] j.t = "list" -> <<"[...]">>

\* dictionary keys
K(s) == <<s>>

\* one-key and two-key dict displays
D1(k1, v1) == Obj(K(k1) :> v1)
D2(k1, v1, k2, v2) == Obj(K(k1) :> v1 @@ K(k2) :> v2)
D3(k1, v1, k2, v2, k3, v3) == Obj(K(k1) :> v1 @@ K(k2) :> v2 @@ K(k3) :> v3)

---------------------------------------------------------------------------
(* Character tokens of JSON text *)

QUOTE == "\""
BSLASH == "\\"
SPACE == " "

\* x in s, for a one-token needle
Contains(s, tok) == \E i \in 1..Len(s) : s[i] = tok

RECURSIVE Replace(_, _, _)
\* s.replace(tok, value): every occurrence, left to right
Replace(s, tok, value) ==
    IF s = <<>> THEN <<>>
    ELSE IF Head(s) = tok THEN value \o Replace(Tail(s), tok, value)
    ELSE <<Head(s)>> \o Replace(Tail(s), tok, value)

---------------------------------------------------------------------------
(* State (lines 42-51) *)

State ==
    [access_token |-> JNull,
     refresh_cookie_value |-> JNull,
     admin_user_id |-> JNull,
     company_id |-> JNull,
     created_user_ids |-> <<>>,
     old_refresh_cookie_value |-> JNull]

---------------------------------------------------------------------------
(* Skip configuration (lines 127-153) *)

\* mutant of SKIP_TOTP_TESTS: LOGIN-014 is not in the set
SKIP_TOTP_TESTS_without_login == {"MFA-VERIFY-001"}

SKIP_TOTP_TESTS == {"LOGIN-014", "MFA-VERIFY-001"}

SKIP_MISSING_SEED ==
    [id \in {"LOGIN-010", "LOGIN-011", "LOGIN-012", "LOGIN-013", "LOGIN-015",
             "LOGIN-016", "LOGIN-017", "REFRESH-004", "REFRESH-005",
             "REFRESH-006", "MFA-SETUP-003", "MFA-VERIFY-005", "MFA-VERIFY-007",
             "MFA-RESET-001", "MFA-RESET-002", "MFA-RESET-003", "MFA-RESET-004",
             "MFA-RESET-005", "MFA-RESET-006", "MFA-RESET-007", "MFA-RESET-008",
             "MFA-RESET-009"} |->
      CASE id = "LOGIN-010" -> "Requires seeded inactive user (inactive@test.com)"
        [] id = "LOGIN-011" -> "Account lockout requires 5+ sequential argon2 verifications (>30s total, times out)"
        [] id = "LOGIN-012" -> "Requires seeded user with no company role (norole@test.com)"
        [] id = "LOGIN-013" -> "Requires seeded MFA-enabled user (mfa-user@test.com)"
        [] id = "LOGIN-015" -> "Requires seeded MFA-enabled user with valid TOTP"
        [] id = "LOGIN-016" -> "Requires non-MFA user for mfaToken validation test"
        [] id = "LOGIN-017" -> "Requires non-MFA user for mfaToken non-digit validation test"
        [] id = "REFRESH-004" -> "Requires a previously-rotated refresh token"
        [] id = "REFRESH-005" -> "Requires an expired refresh token record"
        [] id = "REFRESH-006" -> "Requires a deactivated user's refresh token"
        [] id = "MFA-SETUP-003" -> "Requires a user with mfaEnabled=true"
        [] id = "MFA-VERIFY-005" -> "Requires a user with mfaSecret=null (no setup initiated)"
        [] id = "MFA-VERIFY-007" -> "Requires authenticated MFA verify attempts (needs working login first)"
        [] id = "MFA-RESET-001" -> "Requires MFA-enabled target user + working admin auth"
        [] id = "MFA-RESET-002" -> "Requires non-admin token for RBAC denial test"
        [] id = "MFA-RESET-003" -> "Requires staff-level token for RBAC denial test"
        [] id = "MFA-RESET-004" -> "Requires manager-level token for RBAC denial test"
        [] id = "MFA-RESET-005" -> "Requires self-reset test with working admin auth"
        [] id = "MFA-RESET-006" -> "Requires non-existent user ID test with working admin auth"
        [] id = "MFA-RESET-007" -> "Requires admin auth for unauthenticated test"
        [] id = "MFA-RESET-008" -> "Requires cross-company target user"
        [] id = "MFA-RESET-009" -> "Requires admin auth for missing userId body test"]

TotpReason == "Requires valid TOTP generation (cannot automate)"


---------------------------------------------------------------------------
(* json.dumps / json.loads on the JSON subset the body templates use        *)
(* (objects and strings; null, true, false), character by character.        *)

Raise == [raised |-> TRUE, val |-> JNull]
Ok(v) == [raised |-> FALSE, val |-> v]

RECURSIVE Escape(_)
\* the JSON encoder's string escaping
Escape(s) ==
    IF s = <<>> THEN <<>>
    ELSE IF Head(s) \in {QUOTE, BSLASH} THEN <<BSLASH, Head(s)>> \o Escape(Tail(s))
    ELSE <<Head(s)>> \o Escape(Tail(s))

RECURSIVE KeySeq(_)
\* the keys of a dict, in a fixed order
KeySeq(S) ==
    IF S = {} THEN <<>>
    ELSE LET k == CHOOSE x \in S : TRUE IN <<k>> \o KeySeq(S \ {k})

RECURSIVE json_dumps(_)
RECURSIVE DumpMembers(_, _)
DumpMembers(o, ks) ==
    IF ks = <<>> THEN <<>>
    ELSE <<QUOTE>> \o Escape(Head(ks)) \o <<QUOTE, ":", SPACE>> \o json_dumps(o[Head(ks)])
         \o (IF Len(ks) > 1 THEN <<",", SPACE>> ELSE <<>>)
         \o DumpMembers(o, Tail(ks))

json_dumps(j) ==
    CASE j.t = "null" -> <<"null">>
      [] j.t = "bool" -> IF j.b THEN <<"true">> ELSE <<"false">>
      [] j.t = "str"  -> <<QUOTE>> \o Escape(j.s) \o <<QUOTE>>
      [] j.t = "num"  -> <<ToString(j.n)>>
      [] j.t = "obj"  -> <<"{">> \o DumpMembers(j.o, KeySeq(DOMAIN j.o)) \o <<"}">>
      [] j.t = "list" -> <<"[", "]">>

EOF == "<EOF>"
At(t, i) == IF i <= Len(t) THEN t[i] ELSE EOF

RECURSIVE SkipWs(_, _)
SkipWs(t, i) == IF At(t, i) = SPACE THEN SkipWs(t, i + 1) ELSE i

ParseFail == [ok |-> FALSE, val |-> JNull, next |-> 0]

RECURSIVE ScanStr(_, _, _)
\* the characters after an opening quote, up to the closing quote
ScanStr(t, i, acc) ==
    LET c == At(t, i) IN
    IF c = EOF THEN ParseFail
    ELSE IF c = QUOTE THEN [ok |-> TRUE, val |-> Str(acc), next |-> i + 1]
    ELSE IF c = BSLASH
         THEN IF At(t, i + 1) \in {QUOTE, BSLASH}
              THEN ScanStr(t, i + 2, Append(acc, At(t, i + 1)))
              ELSE ParseFail
    ELSE ScanStr(t, i + 1, Append(acc, c))

RECURSIVE ParseValue(_, _)
RECURSIVE ParseMembers(_, _, _)
ParseMembers(t, i, acc) ==
    LET i1 == SkipWs(t, i) IN
    IF At(t, i1) # QUOTE THEN ParseFail
    ELSE LET k == ScanStr(t, i1 + 1, <<>>) IN
    IF ~k.ok THEN ParseFail
    ELSE LET i2 == SkipWs(t, k.next) IN
    IF At(t, i2) # ":" THEN ParseFail
    ELSE LET v == ParseValue(t, SkipWs(t, i2 + 1)) IN
    IF ~v.ok THEN ParseFail
    ELSE LET acc2 == [x \in DOMAIN acc \cup {k.val.s} |->
                         IF x = k.val.s THEN v.val ELSE acc[x]]
             i3 == SkipWs(t, v.next) IN
    IF At(t, i3) = "," THEN ParseMembers(t, i3 + 1, acc2)
    ELSE IF At(t, i3) = "}" THEN [ok |-> TRUE, val |-> Obj(acc2), next |-> i3 + 1]
    ELSE ParseFail

ParseValue(t, i) ==
    LET c == At(t, i) IN
    IF c = QUOTE THEN ScanStr(t, i + 1, <<>>)
    ELSE IF c = "{"
         THEN IF At(t, SkipWs(t, i + 1)) = "}"
              THEN [ok |-> TRUE, val |-> EmptyDict, next |-> SkipWs(t, i + 1) + 1]
              ELSE ParseMembers(t, i + 1, <<>>)
    ELSE IF c = "null" THEN [ok |-> TRUE, val |-> JNull, next |-> i + 1]
    ELSE IF c = "true" THEN [ok |-> TRUE, val |-> JTrue, next |-> i + 1]
    ELSE IF c = "false" THEN [ok |-> TRUE, val |-> JFalse, next |-> i + 1]
    ELSE ParseFail

\* json.loads: raises on text that is not one JSON value
json_loads(t) ==
    LET r == ParseValue(t, SkipWs(t, 1)) IN
    IF r.ok /\ SkipWs(t, r.next) = Len(t) + 1 THEN Ok(r.val) ELSE Raise

---------------------------------------------------------------------------
(* Placeholder resolution (lines 156-209) *)

FallbackUserId == <<"00000000-0000-4000-a000-000000000002">>
FallbackCompanyId == <<"00000000-0000-4000-a000-000000000001">>
FallbackTargetId == <<"00000000-0000-0000-0000-000000000099">>
Totp == <<"000000">>

Last(s) == s[Len(s)]

\* str.replace raises TypeError when the replacement is not a str
StrReplace(text, tok, value) ==
    IF text.raised \/ ~IsStr(value) THEN Raise
    ELSE Ok(Replace(text.val, tok, value.s))

resolve_body(st, body_spec) ==
    IF body_spec = JNull THEN Ok(JNull)
    ELSE LET body_str == Ok(json_dumps(body_spec))
             userId == PyOr(st.admin_user_id, Str(FallbackUserId))
             target == IF st.created_user_ids # <<>>
                       THEN Last(st.created_user_ids) ELSE Str(FallbackTargetId)
             r1 == StrReplace(body_str, "<userId>", userId)
             r2 == StrReplace(r1, "<valid-totp>", Str(Totp))
             r3 == StrReplace(r2, "<valid-totp-from-secret>", Str(Totp))
             r4 == StrReplace(r3, "<target-user-id>", target)
         IN IF r4.raised THEN Raise ELSE json_loads(r4.val)

resolve_url(st, url) ==
    IF Contains(url, ":id")
    THEN IF st.created_user_ids # <<>>
         THEN StrReplace(Ok(url), ":id", Last(st.created_user_ids))
         ELSE IF Truthy(st.admin_user_id)
         THEN StrReplace(Ok(url), ":id", st.admin_user_id)
         ELSE StrReplace(Ok(url), ":id", Str(FallbackUserId))
    ELSE Ok(url)

LiveTokenMarkers == {"<valid-access-token>", "<admin-token>", "<admin_access_token>"}
NoTokenSentinel == <<"Bearer ", "__NO_TOKEN_AVAILABLE__">>
Bearer(token) == <<"Bearer ">> \o PyStr(token)

HasLiveMarker(val) == \E p \in LiveTokenMarkers : Contains(val, p)

\* mutant of resolve_authorization: the low-privilege markers take the
\* no-token sentinel
resolve_authorization_low_as_none(st, val) ==
    IF HasLiveMarker(val)
    THEN IF Truthy(st.access_token) THEN Bearer(st.access_token) ELSE NoTokenSentinel
    ELSE IF Contains(val, "<expired-access-token>") THEN <<"Bearer ", "expired.jwt.token.value">>
    ELSE IF Contains(val, "<mfa-enabled-user-token>") THEN <<"Bearer ", "__MFA_USER_TOKEN_PLACEHOLDER__">>
    ELSE IF Contains(val, "<user-without-mfa-secret-token>") THEN <<"Bearer ", "__NO_MFA_SECRET_TOKEN__">>
    ELSE IF Contains(val, "<viewer-token>") \/ Contains(val, "<staff-token>") THEN NoTokenSentinel
    ELSE val

resolve_authorization(st, val) ==
    IF HasLiveMarker(val)
    THEN IF Truthy(st.access_token) THEN Bearer(st.access_token) ELSE NoTokenSentinel
    ELSE IF Contains(val, "<expired-access-token>") THEN <<"Bearer ", "expired.jwt.token.value">>
    ELSE IF Contains(val, "<mfa-enabled-user-token>") THEN <<"Bearer ", "__MFA_USER_TOKEN_PLACEHOLDER__">>
    ELSE IF Contains(val, "<user-without-mfa-secret-token>") THEN <<"Bearer ", "__NO_MFA_SECRET_TOKEN__">>
    ELSE IF Contains(val, "<viewer-token>") \/ Contains(val, "<staff-token>") THEN <<"Bearer ", "__LOW_ROLE_TOKEN__">>
    ELSE val

\* marker tokens: each is text that contains both "<" and ">"
MarkerTokens ==
    LiveTokenMarkers \cup
    {"<expired-access-token>", "<mfa-enabled-user-token>", "<user-without-mfa-secret-token>",
     "<viewer-token>", "<staff-token>", "<valid-refresh-token>", "<already-revoked-token>",
     "<userId>", "<valid-totp>", "<valid-totp-from-secret>", "<target-user-id>"}

\* "<" in val and ">" in val
HasAngles(val) ==
    /\ Contains(val, "<") \/ \E m \in MarkerTokens : Contains(val, m)
    /\ Contains(val, ">") \/ \E m \in MarkerTokens : Contains(val, m)

\* a header value is a str, or whatever `state.company_id or "..."` yields
resolve_company(st, val) ==
    IF HasAngles(val.s)
    THEN PyOr(st.company_id, Str(FallbackCompanyId))
    ELSE val

resolve_headers(st, headers_spec) ==
    [h \in DOMAIN headers_spec |->
        IF h = "Authorization" THEN Str(resolve_authorization(st, headers_spec[h].s))
        ELSE IF h = "X-Company-ID" THEN resolve_company(st, headers_spec[h])
        ELSE headers_spec[h]]


---------------------------------------------------------------------------
(* Helpers (lines 58-79) *)

MISSING == Str(<<"__MISSING__">>)

RECURSIVE get_nested(_, _)
\* dotted_key is the list of keys dotted_key.split(".") yields
get_nested(obj, keys) ==
    IF keys = <<>> THEN obj
    ELSE IF IsDict(obj) /\ K(Head(keys)) \in DOMAIN obj.o
         THEN get_nested(obj.o[K(Head(keys))], Tail(keys))
         ELSE MISSING

\* needle in s, for a needle of several tokens
HasSub(s, needle) ==
    \E i \in 1..(Len(s) - Len(needle) + 1) : SubSeq(s, i, i + Len(needle) - 1) = needle

StartsWith(s, prefix) == Len(s) >= Len(prefix) /\ SubSeq(s, 1, Len(prefix)) = prefix

RECURSIVE Split(_, _)
\* s.split(sep), for a one-token separator
Split(s, sep) ==
    IF ~Contains(s, sep) THEN <<s>>
    ELSE LET i == CHOOSE j \in 1..Len(s) : s[j] = sep /\ \A k \in 1..(j - 1) : s[k] # sep
         IN <<SubSeq(s, 1, i - 1)>> \o Split(SubSeq(s, i + 1, Len(s)), sep)

RECURSIVE Strip(_)
Strip(s) ==
    IF s = <<>> THEN s
    ELSE IF Head(s) = SPACE THEN Strip(Tail(s))
    ELSE IF Last(s) = SPACE THEN Strip(SubSeq(s, 1, Len(s) - 1))
    ELSE s

RefreshCookiePrefix == <<"nexa_refresh_token", "=">>

RECURSIVE FirstRefreshPart(_)
FirstRefreshPart(parts) ==
    IF parts = <<>> THEN JNull
    ELSE IF StartsWith(Strip(Head(parts)), RefreshCookiePrefix)
         THEN Str(SubSeq(Strip(Head(parts)), 3, Len(Strip(Head(parts)))))
         ELSE FirstRefreshPart(Tail(parts))

\* sc is the text of the response's Set-Cookie header ("" when absent)
extract_refresh_cookie(sc) ==
    IF ~HasSub(sc, RefreshCookiePrefix) THEN JNull
    ELSE FirstRefreshPart(Split(sc, ";"))

---------------------------------------------------------------------------
(* The server: responses an HTTP exchange can end with *)

T1 == Str(<<"t1">>)
T2 == Str(<<"t2">>)
U1 == Str(<<"u1">>)
UQ == Str(<<"a", QUOTE, "b">>)                                  \* a"b
UI == Str(<<"x", QUOTE, ",", QUOTE, "r", QUOTE, ":", QUOTE, "y">>)  \* x","r":"y
U7 == [t |-> "num", n |-> 7]
C1 == Str(<<"c1">>)

User(id) == D1("id", id)
LoginData(tok, user) == D2("accessToken", tok, "user", user)
Success(data) == D2("success", JTrue, "data", data)

\* bodies of login and refresh responses
AdminEmail == Str(<<"admin@nexa-erp.dev">>)
LoginOk == Success(LoginData(T1, D3("id", U1, "tenantId", C1, "email", AdminEmail)))
LoginNumId == Success(LoginData(T2, D2("id", U7, "email", Str(<<"other@nexa-erp.dev">>))))
LoginQuoteId == Success(LoginData(T2, D2("id", UQ, "companyId", C1)))
LoginMfaToken == Success(D3("accessToken", T2, "requiresMfa", JTrue, "user", User(UI)))
LoginMfa == Success(D2("requiresMfa", JTrue, "user", User(U1)))
LoginMfaOne == Success(D2("requiresMfa", Num(1), "user", User(U1)))
LoginUserNull == Success(LoginData(T1, JNull))
RefreshOk == Success(D1("accessToken", T2))
DataNull == Success(JNull)

\* bodies of resource-creation responses
Created(id) == D1("data", User(id))

\* other bodies: an error envelope, and JSON that is not an object
ErrorBody == D2("success", JFalse, "error", Str(<<"UNAUTHORIZED">>))
ListBody == JList(<<>>)

\* a body whose top-level accessToken is the text __MISSING__
TokenIsMissingText == D1("accessToken", Str(<<"__MISSING__">>))

NoCookie == <<>>
SetRefresh(v) == <<"nexa_refresh_token", "=", v, ";", SPACE, "HttpOnly", ";", SPACE, "Path", "=", "/">>

\* Set-Cookie texts about the cookie session_token: cleared, live, and live
\* next to another cookie that is cleared (requests joins the Set-Cookie
\* headers of a response with ", ")
SessionCleared == <<"session_token", "=", ";", SPACE, "Max-Age", "=", "0">>
SessionLive == <<"session_token", "=", "abc123">>
SessionLiveOtherCleared ==
    <<"session_token", "=", "abc123", ";", SPACE, "Path", "=", "/", ",", SPACE,
      "theme", "=", ";", SPACE, "Max-Age", "=", "0">>

Resp(status, body, sc) ==
    [ok |-> TRUE, err |-> "", status |-> status, body |-> body, set_cookie |-> sc,
     headers |-> IF sc = NoCookie THEN {"content-type"} ELSE {"content-type", "set-cookie"}]

\* requests raised: err names the except clause of execute_request that catches it
Failure(kind) ==
    [ok |-> FALSE, err |-> kind, status |-> 0, body |-> JNull, set_cookie |-> NoCookie,
     headers |-> {}]

NoResp == Failure("none")

Failures == {Failure("ConnectionError"), Failure("Timeout"), Failure("Exception")}

Responses ==
    {Resp(200, b, NoCookie) : b \in {LoginOk, LoginNumId, LoginQuoteId, LoginMfaToken,
                                     LoginMfa, LoginUserNull, RefreshOk, DataNull,
                                     Created(U1), Created(UQ), Created(U7),
                                     ErrorBody, ListBody}}
      \cup {Resp(200, LoginOk, SetRefresh("r1")), Resp(200, RefreshOk, SetRefresh("r2")),
            Resp(200, LoginMfa, SetRefresh("r2"))}
      \cup {Resp(200, LoginMfaOne, NoCookie), Resp(200, TokenIsMissingText, NoCookie)}
      \cup {Resp(200, ErrorBody, sc) : sc \in {SessionCleared, SessionLive,
                                                SessionLiveOtherCleared}}
      \cup {Resp(201, Created(U1), NoCookie)}
      \cup {Resp(401, ErrorBody, NoCookie), Resp(401, LoginOk, SetRefresh("r1")),
            Resp(401, ErrorBody, SessionCleared)}
      \cup Failures

\* bool(resp): requests.Response.__bool__ is Response.ok, false for 4xx and 5xx
RespTruthy(r) == r.ok /\ ~(400 <= r.status /\ r.status < 600)

---------------------------------------------------------------------------
(* The test plan: the test cases main() can meet *)

NoHeaders == <<>>
NoCookies == <<>>

Expect(status) ==
    [status |-> status, body_contains |-> <<>>, body_exact |-> <<>>,
     headers_contain |-> <<>>, cookie_set |-> "", cookie_not_set |-> "",
     cookie_cleared |-> ""]

Case(id, auth_required, method, url, headers, body, cookies, repeat, expected, db) ==
    [id |-> id, auth_required |-> auth_required, method |-> method, url |-> url,
     headers |-> headers, body |-> body, cookies |-> cookies, repeat |-> repeat,
     expected |-> expected, db_verification |-> db]

Auth(marker) == [Authorization |-> Str(<<"Bearer ", marker>>)]

LoginCreds == D2("email", Str(<<"admin@test.com">>), "password", Str(<<"ValidPassword123!">>))

Repeats == 2..MaxRepeat

\* cases whose Authorization header names an identity other than the logged-in
\* one (a low-privilege role), or no identity the resolver knows, by marker
AuthProbes ==
    [m \in {"<viewer-token>", "<manager-token>"} |->
       IF m = "<viewer-token>" THEN "USERS-006" ELSE "USERS-008"]

Cases ==
    { Case("LOGIN-001", FALSE, "POST", <<"/auth/login">>, NoHeaders, LoginCreds, NoCookies, 1,
           [Expect(200) EXCEPT !.body_exact = << <<<<"data", "user", "email">>, AdminEmail>> >>],
           FALSE),
      Case("LOGIN-014", TRUE, "POST", <<"/auth/login">>, NoHeaders, LoginCreds, NoCookies, 1,
           Expect(200), FALSE),
      Case("REFRESH-001", FALSE, "POST", <<"/auth/refresh">>, NoHeaders, JNull,
           [nexa_refresh_token |-> <<"<valid-refresh-token>">>], 1,
           [Expect(200) EXCEPT !.body_contains = <<<<"accessToken">>>>,
                               !.body_exact = << <<<<"success">>, JTrue>> >>,
                               !.headers_contain = <<"Content-Type">>,
                               !.cookie_set = "nexa_refresh_token",
                               !.cookie_not_set = "session_token"], TRUE),
      Case("LOGOUT-001", TRUE, "POST", <<"/auth/logout">>, Auth("<valid-access-token>"), JNull,
           [nexa_refresh_token |-> <<"<valid-refresh-token>">>,
            old_refresh_token |-> <<"<already-revoked-token>">>,
            session |-> <<"<", "tampered-token", ">">>,
            theme |-> <<"dark">>], 1,
           [Expect(200) EXCEPT !.cookie_cleared = "session_token"], TRUE),
      Case("USERS-001", TRUE, "POST", <<"/system/users">>,
           ("Authorization" :> Str(<<"Bearer ", "<admin-token>">>)
              @@ "X-Company-ID" :> Str(<<"<", "company-id", ">">>)),
           D1("email", Str(<<"new@test.com">>)), NoCookies, 1, Expect(201), TRUE),
      Case("USERS-005", TRUE, "GET", <<"/system/users", "/", ":id">>,
           Auth("<valid-access-token>"), JNull, NoCookies, 1, Expect(200), FALSE),
      Case("MFA-SETUP-001", FALSE, "POST", <<"/system/users", "/", ":id", "/mfa">>,
           Auth("<admin_access_token>"),
           D2("userId", Str(<<"<userId>">>), "target", D1("id", Str(<<"<target-user-id>">>))),
           NoCookies, 1,
           [Expect(200) EXCEPT !.body_exact = << <<<<"data", "requiresMfa">>, JTrue>> >>],
           FALSE) }
    \cup
    { Case(AuthProbes[m], FALSE, "GET", <<"/system/users">>, Auth(m), JNull, NoCookies, 1,
           Expect(401), FALSE) : m \in DOMAIN AuthProbes }
    \cup
    { Case("LOGIN-011", TRUE, "POST", <<"/auth/login">>, Auth("<valid-access-token>"),
           LoginCreds, NoCookies, n, Expect(423), FALSE) : n \in Repeats }
    \cup
    { Case("LOGIN-009", FALSE, "POST", <<"/auth/login">>, NoHeaders, LoginCreds, NoCookies, n,
           Expect(401), FALSE) : n \in Repeats }
    \cup
    { Case("MFA-VERIFY-002", TRUE, "POST", <<"/auth/mfa/verify">>, Auth("<valid-access-token>"),
           D2("userId", Str(<<"<userId>">>), "code", Str(<<"<valid-totp>">>)),
           [nexa_refresh_token |-> <<"<valid-refresh-token>">>], n, Expect(200), FALSE) :
        n \in Repeats }

NoCase == Case("", FALSE, "", <<>>, NoHeaders, JNull, NoCookies, 1, Expect(0), FALSE)


---------------------------------------------------------------------------
(* Bootstrap login (lines 82-119) *)

BootstrapCreds ==
    << D2("email", Str(<<"admin@nexa-erp.dev">>), "password", Str(<<"NexaDev2026!">>)),
       D2("email", Str(<<"admin@test.com">>), "password", Str(<<"ValidPassword123!">>)) >>

\* mutant of ensure_login_body: the status of the login response is not checked
ensure_login_body_any_status(st, r) ==
    IF r.ok /\ IsDict(r.body) /\ Truthy(PyGet(r.body, K("success"), JNull))
       /\ IsDict(PyGet(r.body, K("data"), EmptyDict))
    THEN [st |-> [st EXCEPT !.access_token =
                      PyGet(PyGet(r.body, K("data"), EmptyDict), K("accessToken"), JNull)],
          returned |-> TRUE]
    ELSE [st |-> st, returned |-> FALSE]

\* One iteration of ensure_login's loop on the response r of do_login.
\* returned: the function returned True; otherwise the loop goes on (an
\* exception is caught at line 117 with the assignments made so far kept).
ensure_login_body(st, r) ==
    IF ~r.ok THEN [st |-> st, returned |-> FALSE]
    ELSE IF r.status # 200 THEN [st |-> st, returned |-> FALSE]
    ELSE IF ~IsDict(r.body) THEN [st |-> st, returned |-> FALSE]
    ELSE IF ~Truthy(PyGet(r.body, K("success"), JNull)) THEN [st |-> st, returned |-> FALSE]
    ELSE LET data == PyGet(r.body, K("data"), EmptyDict) IN
    IF ~IsDict(data) THEN [st |-> st, returned |-> FALSE]
    ELSE LET st1 == [st EXCEPT !.access_token = PyGet(data, K("accessToken"), JNull)]
             user == PyGet(data, K("user"), EmptyDict) IN
    IF ~IsDict(user) THEN [st |-> st1, returned |-> FALSE]
    ELSE LET st2 == [st1 EXCEPT !.admin_user_id = PyGet(user, K("id"), JNull),
                                !.company_id = PyOr(PyGet(user, K("tenantId"), JNull),
                                                    PyGet(user, K("companyId"), JNull))]
             cookie_val == extract_refresh_cookie(r.set_cookie)
             st3 == IF Truthy(cookie_val)
                    THEN [st2 EXCEPT !.refresh_cookie_value = cookie_val]
                    ELSE st2
         IN [st |-> st3, returned |-> TRUE]

---------------------------------------------------------------------------
(* run_test: cookies, state capture, assertions (lines 294-444) *)

\* mutant of resolve_cookie: the revoked-token marker takes the current cookie
resolve_cookie_revoked_current(st, cval) ==
    IF Contains(cval, "<valid-refresh-token>") \/ Contains(cval, "<already-revoked-token>")
    THEN IF Truthy(st.refresh_cookie_value)
         THEN st.refresh_cookie_value ELSE Str(<<"no-valid-cookie">>)
    ELSE IF HasAngles(cval) THEN Str(<<"invalid-placeholder-token">>)
    ELSE Str(cval)

\* lines 297-308, for one declared cookie
resolve_cookie(st, cval) ==
    IF Contains(cval, "<valid-refresh-token>")
    THEN IF Truthy(st.refresh_cookie_value)
         THEN st.refresh_cookie_value ELSE Str(<<"no-valid-cookie">>)
    ELSE IF Contains(cval, "<already-revoked-token>")
    THEN PyOr(st.old_refresh_cookie_value, Str(<<"revoked-placeholder">>))
    ELSE IF HasAngles(cval) THEN Str(<<"invalid-placeholder-token">>)
    ELSE Str(cval)

resolve_cookies(st, cookies_spec) ==
    [c \in DOMAIN cookies_spec |-> resolve_cookie(st, cookies_spec[c])]

Raised(st) == [st |-> st, raised |-> TRUE]
Done(st) == [st |-> st, raised |-> FALSE]

capture_cookie(st, r) ==
    LET cv == extract_refresh_cookie(r.set_cookie) IN
    IF Truthy(cv)
    THEN [st EXCEPT !.old_refresh_cookie_value = st.refresh_cookie_value,
                    !.refresh_cookie_value = cv]
    ELSE st

\* mutant of capture_login: the credential of the login response is not stored
capture_login_no_token(st, req, r) ==
    IF req.url = <<"/auth/login">> /\ r.status = 200 /\ IsDict(r.body)
       /\ Truthy(PyGet(r.body, K("success"), JNull))
    THEN Done(capture_cookie(st, r))
    ELSE Done(st)

\* lines 322-334
capture_login(st, req, r) ==
    IF ~(req.url = <<"/auth/login">> /\ r.status = 200) THEN Done(st)
    ELSE IF ~IsDict(r.body) THEN Raised(st)
    ELSE IF ~Truthy(PyGet(r.body, K("success"), JNull)) THEN Done(st)
    ELSE LET data == PyGet(r.body, K("data"), EmptyDict) IN
    IF ~IsDict(data) THEN Raised(st)
    ELSE IF ~(Truthy(PyGet(data, K("accessToken"), JNull))
              /\ ~Truthy(PyGet(data, K("requiresMfa"), JNull))) THEN Done(st)
    ELSE LET st1 == [st EXCEPT !.access_token = data.o[K("accessToken")]]
             user == PyGet(data, K("user"), EmptyDict) IN
    IF ~IsDict(user) THEN Raised(st1)
    ELSE LET id == PyGet(user, K("id"), JNull)
             tenant == PyGet(user, K("tenantId"), JNull)
             st2 == IF Truthy(id) THEN [st1 EXCEPT !.admin_user_id = id] ELSE st1
             st3 == IF Truthy(tenant) THEN [st2 EXCEPT !.company_id = tenant] ELSE st2
         IN Done(capture_cookie(st3, r))

\* mutant of capture_refresh: a refresh response is captured like a login
\* response, principal and tenant included
capture_refresh_as_login(st, req, r) ==
    IF req.url = <<"/auth/refresh">> /\ r.status = 200
    THEN capture_login(st, [req EXCEPT !.url = <<"/auth/login">>], r)
    ELSE Done(st)

\* lines 336-343
capture_refresh(st, req, r) ==
    IF ~(req.url = <<"/auth/refresh">> /\ r.status = 200) THEN Done(st)
    ELSE IF ~IsDict(r.body) THEN Raised(st)
    ELSE LET data == PyGet(r.body, K("data"), EmptyDict) IN
    IF ~IsDict(data) THEN Raised(st)
    ELSE LET tok == PyGet(data, K("accessToken"), JNull)
             st1 == IF Truthy(tok) THEN [st EXCEPT !.access_token = tok] ELSE st
         IN Done(capture_cookie(st1, r))

\* mutant of capture_created: the creation response is recognised by the id
\* of the test case
capture_created_by_id(st, req, r) ==
    IF req.id = "USERS-001" /\ r.status \in {200, 201} /\ IsDict(r.body)
          /\ IsDict(PyGet(r.body, K("data"), EmptyDict))
          /\ Truthy(PyGet(PyGet(r.body, K("data"), EmptyDict), K("id"), JNull))
    THEN Done([st EXCEPT !.created_user_ids =
                           Append(st.created_user_ids, r.body.o[K("data")].o[K("id")])])
    ELSE Done(st)

\* lines 345-348
capture_created(st, req, r) ==
    IF ~(req.method = "POST" /\ Contains(req.url, "/system/users") /\ r.status \in {200, 201})
    THEN Done(st)
    ELSE IF ~IsDict(r.body) THEN Raised(st)
    ELSE LET data == PyGet(r.body, K("data"), EmptyDict) IN
    IF ~IsDict(data) THEN Raised(st)
    ELSE LET id == PyGet(data, K("id"), JNull) IN
         IF Truthy(id)
         THEN Done([st EXCEPT !.created_user_ids = Append(st.created_user_ids, id)])
         ELSE Done(st)

\* mutant of capture_state: nothing is captured from a response whose status
\* is not the expected one
capture_state_if_expected(st, req, r) ==
    IF r.status # req.expected.status THEN Done(st)
    ELSE LET a == capture_login(st, req, r) IN
         IF a.raised THEN a
         ELSE LET b == capture_refresh(a.st, req, r) IN
              IF b.raised THEN b
              ELSE capture_created(b.st, req, r)

\* the three capture blocks in sequence; an exception leaves the function
capture_state(st, req, r) ==
    LET a == capture_login(st, req, r) IN
    IF a.raised THEN a
    ELSE LET b == capture_refresh(a.st, req, r) IN
    IF b.raised THEN b
    ELSE capture_created(b.st, req, r)

\* a == b of two Python values: a bool equals the number 1 or 0
PyEq(a, b) ==
    IF a.t = "bool" /\ b.t = "num" THEN b.n = (IF a.b THEN 1 ELSE 0)
    ELSE IF a.t = "num" /\ b.t = "bool" THEN a.n = (IF b.b THEN 1 ELSE 0)
    ELSE a = b

\* s.lower(), token by token
Lower(tok) ==
    CASE tok = "Max-Age" -> "max-age"
      [] tok = "Expires" -> "expires"
      [] tok = "Thu, 01 Jan 1970 00:00:00 GMT" -> "thu, 01 jan 1970 00:00:00 gmt"
      [] tok = "Thu, 01 Jan 1970" -> "thu, 01 jan 1970"
      [] tok = "Set-Cookie" -> "set-cookie"
      [] tok = "Content-Type" -> "content-type"
      [] tok = "X-Request-Id" -> "x-request-id"
      [] tok = "HttpOnly" -> "httponly"
      [] tok = "Path" -> "path"
      [] OTHER -> tok

LowerSeq(s) == [i \in 1..Len(s) |-> Lower(s[i])]

\* date tokens whose text starts with "thu, 01 jan 1970"
EpochDates == {"thu, 01 jan 1970", "thu, 01 jan 1970 00:00:00 gmt"}

Assertion(check, ok) == [check |-> check, passed |-> JBool(ok)]

assert_status(expected, r) ==
    << [check |-> <<"status code">>, passed |-> JBool(r.status = expected.status),
        expected |-> expected.status, actual |-> r.status] >>

assert_body_contains(expected, r) ==
    [i \in 1..Len(expected.body_contains) |->
        LET field == expected.body_contains[i]
            val0 == get_nested(r.body, field)
            val == IF val0 = MISSING THEN get_nested(r.body, <<"data">> \o field) ELSE val0
        IN Assertion(<<"body contains">> \o field, val # MISSING)]

assert_body_exact(expected, r) ==
    [i \in 1..Len(expected.body_exact) |->
        LET dotted_key == expected.body_exact[i][1]
            exp_val == expected.body_exact[i][2]
            actual_val == get_nested(r.body, dotted_key)
        IN [check |-> <<"body ==">> \o dotted_key,
            passed |-> JBool(PyEq(actual_val, exp_val)),
            expected |-> exp_val,
            actual |-> IF actual_val # MISSING THEN actual_val ELSE JNull]]

assert_headers(expected, r) ==
    IF RespTruthy(r)
    THEN [i \in 1..Len(expected.headers_contain) |->
            Assertion(<<"header present", expected.headers_contain[i]>>,
                      Lower(expected.headers_contain[i]) \in r.headers)]
    ELSE <<>>

assert_cookie_set(expected, r) ==
    IF expected.cookie_set # "" /\ RespTruthy(r)
    THEN <<Assertion(<<"cookie set", expected.cookie_set>>,
                     Contains(r.set_cookie, expected.cookie_set))>>
    ELSE <<>>

assert_cookie_not_set(expected, r) ==
    IF expected.cookie_not_set # "" /\ RespTruthy(r)
    THEN <<Assertion(<<"cookie NOT set", expected.cookie_not_set>>,
                     ~Contains(r.set_cookie, expected.cookie_not_set))>>
    ELSE <<>>

assert_cookie_cleared(expected, r) ==
    IF expected.cookie_cleared # "" /\ RespTruthy(r)
    THEN <<Assertion(<<"cookie cleared", expected.cookie_cleared>>,
                     /\ Contains(r.set_cookie, expected.cookie_cleared)
                     /\ \/ HasSub(LowerSeq(r.set_cookie), <<"max-age", "=", "0">>)
                        \/ \E d \in EpochDates :
                              HasSub(LowerSeq(r.set_cookie), <<"expires", "=", d>>))>>
    ELSE <<>>

assert_db(case) ==
    IF case.db_verification
    THEN << [check |-> <<"db_verification (manual)">>, passed |-> JNull] >>
    ELSE <<>>

\* mutant of run_assertions: the cookie assertions come before the body ones
run_assertions_cookies_first(case, r) ==
    assert_status(case.expected, r)
      \o assert_cookie_set(case.expected, r)
      \o assert_cookie_not_set(case.expected, r)
      \o assert_cookie_cleared(case.expected, r)
      \o assert_body_contains(case.expected, r)
      \o assert_body_exact(case.expected, r)
      \o assert_headers(case.expected, r)
      \o assert_db(case)

\* lines 353-429: the assertion list, in the order the code appends
run_assertions(case, r) ==
    assert_status(case.expected, r)
      \o assert_body_contains(case.expected, r)
      \o assert_body_exact(case.expected, r)
      \o assert_headers(case.expected, r)
      \o assert_cookie_set(case.expected, r)
      \o assert_cookie_not_set(case.expected, r)
      \o assert_cookie_cleared(case.expected, r)
      \o assert_db(case)

\* mutant of all_passed: the informational assertions are not filtered out
all_passed_unfiltered(assertions) ==
    assertions # <<>> /\ \A i \in 1..Len(assertions) : Truthy(assertions[i].passed)

\* lines 434-435
all_passed(assertions) ==
    LET definite == SelectSeq(assertions, LAMBDA a : a.passed # JNull) IN
    IF definite # <<>>
    THEN \A i \in 1..Len(definite) : Truthy(definite[i].passed)
    ELSE FALSE

\* lines 447-461
make_result(case, status, actual_status, body, assertions, error) ==
    [endpoint |-> <<case.method>> \o case.url,
     test_id |-> case.id,
     status |-> status,
     expected_status |-> case.expected.status,
     actual_status |-> actual_status,
     response_body |-> body,
     assertions |-> assertions,
     error |-> error]

NoResult == make_result(NoCase, "", JNull, JNull, <<>>, JNull)

\* the message execute_request returns for a transport failure (lines 230-235)
ErrorText(r) ==
    CASE r.err = "ConnectionError" -> Str(<<"Connection error: ", "...">>)
      [] r.err = "Timeout" -> Str(<<"Request timed out (server may be busy with argon2 hashing)">>)
      [] OTHER -> Str(<<"Error: ", "...">>)

\* mutant of score: the `if err` early return is missing
score_no_early_return(case, r) ==
    LET assertions == run_assertions(case, r) IN
    make_result(case, IF all_passed(assertions) THEN "pass" ELSE "fail",
                IF r.ok THEN Num(r.status) ELSE JNull, r.body, assertions,
                IF all_passed(assertions) THEN JNull
                ELSE Str(<<"One or more assertions failed">>))

\* lines 315-317 and 431-444: the Result of a case whose primary call was made
score(case, r) ==
    IF ~r.ok
    THEN make_result(case, "fail", JNull, JNull,
                     <<Assertion(<<"request execution">>, FALSE)>>, ErrorText(r))
    ELSE LET assertions == run_assertions(case, r) IN
         make_result(case, IF all_passed(assertions) THEN "pass" ELSE "fail",
                     Num(r.status), r.body, assertions,
                     IF all_passed(assertions) THEN JNull
                     ELSE Str(<<"One or more assertions failed">>))


---------------------------------------------------------------------------
(* Report generation (lines 468-579) *)

\* the output main() hands over (lines 635-641): the counters and the Results,
\* of which the report reads endpoint and status
Output(rs) ==
    [summary |-> [total |-> Len(rs),
                  passed |-> Len(SelectSeq(rs, LAMBDA r : r.status = "pass")),
                  failed |-> Len(SelectSeq(rs, LAMBDA r : r.status = "fail")),
                  skipped |-> Len(SelectSeq(rs, LAMBDA r : r.status = "skip"))],
     results |-> rs]

NoOutput == Output(<<>>)
NoReport == [pass_rate |-> <<>>, by_ep |-> <<>>]

\* mutant of pass_rate: the rate is taken over all cases, skipped included
pass_rate_over_total(s) ==
    IF s.total > 0
    THEN <<ToString((s.passed * 100) \div s.total), "%">>
    ELSE <<"N/A">>

\* lines 471-472
pass_rate(s) ==
    LET executed == s.total - s.skipped IN
    IF executed > 0
    THEN <<ToString((s.passed * 100) \div executed), "%">>
    ELSE <<"N/A">>

RECURSIVE FirstSeen(_, _)
\* the keys of by_ep (lines 493-496): endpoints in order of first appearance
FirstSeen(rs, seen) ==
    IF rs = <<>> THEN <<>>
    ELSE IF Head(rs).endpoint \in seen THEN FirstSeen(Tail(rs), seen)
    ELSE <<Head(rs).endpoint>> \o FirstSeen(Tail(rs), seen \cup {Head(rs).endpoint})

\* line 505
rollup_tag(ep_p, ep_f) ==
    IF ep_f = 0 /\ ep_p > 0 THEN "PASS"
    ELSE IF ep_p > 0 THEN "PARTIAL" ELSE "FAIL"

\* lines 501-506: the heading of one endpoint's section
section(ep, tests) ==
    LET ep_p == Len(SelectSeq(tests, LAMBDA t : t.status = "pass"))
        ep_f == Len(SelectSeq(tests, LAMBDA t : t.status = "fail"))
        ep_s == Len(SelectSeq(tests, LAMBDA t : t.status = "skip"))
    IN [endpoint |-> ep, tag |-> rollup_tag(ep_p, ep_f),
        ep_p |-> ep_p, ep_f |-> ep_f, ep_s |-> ep_s, tests |-> tests]

\* lines 468-516: the summary line of the pass rate and the endpoint sections
write_markdown_report(out) ==
    LET keys == FirstSeen(out.results, {}) IN
    [pass_rate |-> pass_rate(out.summary),
     by_ep |-> [i \in 1..Len(keys) |->
                  section(keys[i], SelectSeq(out.results, LAMBDA r : r.endpoint = keys[i]))]]

---------------------------------------------------------------------------
(* History variables *)

Request(kind, method, url, headers, body, cookies) ==
    [kind |-> kind, method |-> method, url |-> url, headers |-> headers,
     body |-> body, cookies |-> cookies]

Exchange(who, r) == [who |-> who, resp |-> r]
NoExch == Exchange("none", NoResp)

SafeGet(j, k) == IF IsDict(j) /\ K(k) \in DOMAIN j.o THEN j.o[K(k)] ELSE JNull

\* the access credential a response carries
Credential(r) == SafeGet(SafeGet(r.body, "data"), "accessToken")

\* a successful login response with a credential and no second-factor requirement
IsLoginSuccess(r) ==
    /\ r.ok /\ r.status = 200
    /\ Truthy(SafeGet(r.body, "success"))
    /\ Truthy(Credential(r))
    /\ ~Truthy(SafeGet(SafeGet(r.body, "data"), "requiresMfa"))

\* a refresh response that returns a credential
IsRefreshSuccess(r) == r.ok /\ r.status = 200 /\ Truthy(Credential(r))

\* the credential a test case's login or refresh response handed out last
NextHeld(h, case, r) ==
    IF case.url = <<"/auth/login">> /\ IsLoginSuccess(r) THEN Credential(r)
    ELSE IF case.url = <<"/auth/refresh">> /\ IsRefreshSuccess(r) THEN Credential(r)
    ELSE h

---------------------------------------------------------------------------
(* Initial state: a fresh process at the head of main()'s loop *)

Init ==
    /\ state = State
    /\ pc = "main"
    /\ tc = NoCase
    /\ calls = 0
    /\ pair = 1
    /\ warm = 0
    /\ sent = <<>>
    /\ exch = NoExch
    /\ held = JNull
    /\ result = NoResult
    /\ results = <<>>
    /\ total = 0 /\ passed = 0 /\ failed = 0 /\ skipped = 0
    /\ output = NoOutput
    /\ report = NoReport

---------------------------------------------------------------------------
(* main() (lines 596-627) *)

\* line 604-608: the next test case of the plan; run_test is entered
MainLoop ==
    /\ pc = "main"
    /\ total < MaxCases
    /\ \E case \in Cases : tc' = case
    /\ total' = total + 1
    /\ pc' = "run_test"
    /\ exch' = NoExch
    /\ UNCHANGED <<state, calls, pair, warm, sent, held, result, results,
                   passed, failed, skipped>>
    /\ UNCHANGED <<output, report>>

\* mutant of count_result: the elif branch of "skip" is missing
count_result_no_skip(status, p, f, s) ==
    IF status = "pass" THEN [passed |-> p + 1, failed |-> f, skipped |-> s]
    ELSE [passed |-> p, failed |-> f + 1, skipped |-> s]

\* lines 611-617: the counter of the Result's status goes up by one
count_result(status, p, f, s) ==
    IF status = "pass" THEN [passed |-> p + 1, failed |-> f, skipped |-> s]
    ELSE IF status = "skip" THEN [passed |-> p, failed |-> f, skipped |-> s + 1]
    ELSE [passed |-> p, failed |-> f + 1, skipped |-> s]

\* lines 609-627: the Result is appended and counted
MainRecord ==
    /\ pc = "ret"
    /\ results' = Append(results, result.status)
    /\ passed' = count_result(result.status, passed, failed, skipped).passed
    /\ skipped' = count_result(result.status, passed, failed, skipped).skipped
    /\ failed' = count_result(result.status, passed, failed, skipped).failed
    /\ result' = NoResult
    /\ sent' = <<>>
    /\ tc' = NoCase
    /\ exch' = NoExch
    /\ pc' = "main"
    /\ UNCHANGED <<state, calls, pair, warm, held, total>>
    /\ UNCHANGED <<output, report>>

\* lines 629-650: the plan is exhausted; summary and reports are written
MainExit ==
    /\ pc = "main"
    /\ pc' = "done"
    /\ exch' = NoExch
    /\ UNCHANGED <<state, tc, calls, pair, warm, sent, held, result, results,
                   total, passed, failed, skipped>>
    /\ UNCHANGED <<output, report>>

---------------------------------------------------------------------------
(* run_test (lines 238-444) *)

\* where run_test goes once the ensure_login calls are done (line 272)
AfterLogin(case) == IF case.repeat > 1 THEN "warmup" ELSE "primary"

\* mutant of LoginCalls: every case bootstraps a login, login tests included
LoginCalls_always(case) == 1

\* mutant of warmups: one warm-up call too many
warmups_all(case) == case.repeat

\* line 274: range(repeat - 1)
warmups(case) == case.repeat - 1

\* the ensure_login() calls of lines 258-266
LoginCalls(case) ==
    (IF case.auth_required THEN 1 ELSE 0)
      + (IF case.id = "REFRESH-001" THEN 1 ELSE 0)
      + (IF case.id = "LOGOUT-001" THEN 1 ELSE 0)

\* mutant of skip_reason: one generic reason for every skipped case
skip_reason_generic(id) == TotpReason

\* lines 249-253: the reason a skipped case is reported with
skip_reason(id) ==
    IF id \in SKIP_TOTP_TESTS THEN TotpReason ELSE SKIP_MISSING_SEED[id]

\* lines 249-253: a statically skipped case returns at once
Skip ==
    /\ pc = "run_test"
    /\ tc.id \in SKIP_TOTP_TESTS \/ tc.id \in DOMAIN SKIP_MISSING_SEED
    /\ result' = make_result(tc, "skip", JNull, JNull, <<>>, Str(<<skip_reason(tc.id)>>))
    /\ pc' = "ret"
    /\ exch' = NoExch
    /\ UNCHANGED <<state, tc, calls, pair, warm, sent, held, results,
                   total, passed, failed, skipped>>
    /\ UNCHANGED <<output, report>>

\* lines 255-273: the case is run
Preconditions ==
    /\ pc = "run_test"
    /\ ~(tc.id \in SKIP_TOTP_TESTS \/ tc.id \in DOMAIN SKIP_MISSING_SEED)
    /\ calls' = LoginCalls(tc)
    /\ pair' = 1
    /\ warm' = warmups(tc)
    /\ pc' = IF LoginCalls(tc) > 0 THEN "ensure_login" ELSE AfterLogin(tc)
    /\ exch' = NoExch
    /\ UNCHANGED <<state, tc, sent, held, result, results, total, passed, failed, skipped>>
    /\ UNCHANGED <<output, report>>

\* ensure_login returns to run_test
Return(n) ==
    /\ calls' = n - 1
    /\ pair' = 1
    /\ pc' = IF n - 1 > 0 THEN "ensure_login" ELSE AfterLogin(tc)

\* lines 98-99: a credential is held, ensure_login returns at once
EnsureLoginHeld ==
    /\ pc = "ensure_login"
    /\ pair = 1
    /\ Truthy(state.access_token)
    /\ Return(calls)
    /\ exch' = NoExch
    /\ UNCHANGED <<state, tc, warm, sent, held, result, results,
                   total, passed, failed, skipped>>
    /\ UNCHANGED <<output, report>>

\* lines 101-119: one login attempt with the next credential pair
EnsureLoginTry ==
    /\ pc = "ensure_login"
    /\ pair = 2 \/ ~Truthy(state.access_token)
    /\ \E r \in Responses :
         LET out == ensure_login_body(state, r) IN
         /\ state' = out.st
         /\ exch' = Exchange("bootstrap", r)
         /\ IF out.returned \/ pair = Len(BootstrapCreds)
            THEN Return(calls)
            ELSE /\ pair' = pair + 1
                 /\ UNCHANGED <<calls, pc>>
    /\ sent' = Append(sent, Request("bootstrap", "POST", <<"/auth/login">>, NoHeaders,
                                    BootstrapCreds[pair], NoCookies))
    /\ UNCHANGED <<tc, warm, held, result, results, total, passed, failed, skipped>>
    /\ UNCHANGED <<output, report>>

\* lines 274-284: one warm-up call; its outcome is discarded, an exception
\* of the resolvers is swallowed before anything is sent
WarmUp ==
    /\ pc = "warmup"
    /\ warm > 0
    /\ LET body == resolve_body(state, tc.body) IN
       IF body.raised
       THEN /\ sent' = sent
            /\ exch' = NoExch
       ELSE /\ sent' = Append(sent, Request("warmup", tc.method, tc.url,
                                            resolve_headers(state, tc.headers),
                                            body.val, NoCookies))
            /\ exch' = Exchange("warmup", NoResp)
    /\ warm' = warm - 1
    /\ pc' = IF warm - 1 > 0 THEN "warmup" ELSE "primary"
    /\ UNCHANGED <<state, tc, calls, pair, held, result, results,
                   total, passed, failed, skipped>>
    /\ UNCHANGED <<output, report>>

\* lines 289-292: a resolver raises; nothing catches it and the process ends
ResolveRaises ==
    /\ pc = "primary"
    /\ resolve_url(state, tc.url).raised \/ resolve_body(state, tc.body).raised
    /\ pc' = "crashed"
    /\ exch' = NoExch
    /\ UNCHANGED <<state, tc, calls, pair, warm, sent, held, result, results,
                   total, passed, failed, skipped>>
    /\ UNCHANGED <<output, report>>

\* lines 289-444: the primary call, state capture and scoring
Primary ==
    /\ pc = "primary"
    /\ ~resolve_url(state, tc.url).raised
    /\ ~resolve_body(state, tc.body).raised
    /\ sent' = Append(sent, Request("primary", tc.method, resolve_url(state, tc.url).val,
                                    resolve_headers(state, tc.headers),
                                    resolve_body(state, tc.body).val,
                                    resolve_cookies(state, tc.cookies)))
    /\ \E r \in Responses :
         /\ exch' = Exchange("primary", r)
         /\ held' = NextHeld(held, tc, r)
         /\ IF ~r.ok
            THEN /\ state' = state
                 /\ result' = score(tc, r)
                 /\ pc' = "ret"
            ELSE LET cap == capture_state(state, tc, r) IN
                 /\ state' = cap.st
                 /\ result' = IF cap.raised THEN NoResult ELSE score(tc, r)
                 /\ pc' = IF cap.raised THEN "crashed" ELSE "ret"
    /\ UNCHANGED <<tc, calls, pair, warm, results, total, passed, failed, skipped>>
    /\ UNCHANGED <<output, report>>

Next ==
    \/ MainLoop
    \/ MainRecord
    \/ MainExit
    \/ Skip
    \/ Preconditions
    \/ EnsureLoginHeld
    \/ EnsureLoginTry
    \/ WarmUp
    \/ ResolveRaises
    \/ Primary

Spec == Init /\ [][Next]_vars

---------------------------------------------------------------------------
(* write_markdown_report on its own: every output main() can hand over *)

ReportEndpoints == {<<"POST", "/auth/login">>, <<"POST", "/auth/mfa/reset">>}

ReportResults == [endpoint : ReportEndpoints, status : {"pass", "fail", "skip"}]

RECURSIVE SeqsUpTo(_, _)
\* the sequences over S of length at most n
SeqsUpTo(S, n) ==
    IF n = 0 THEN {<<>>}
    ELSE LET shorter == SeqsUpTo(S, n - 1) IN
         shorter \cup {Append(q, x) : q \in {r \in shorter : Len(r) = n - 1}, x \in S}

\* main() has left its loop with some list of Results (line 629)
InitReport ==
    /\ state = State
    /\ pc = "write_report"
    /\ tc = NoCase
    /\ calls = 0
    /\ pair = 1
    /\ warm = 0
    /\ sent = <<>>
    /\ exch = NoExch
    /\ held = JNull
    /\ result = NoResult
    /\ \E rs \in SeqsUpTo(ReportResults, MaxResults) :
          /\ output = Output(rs)
          /\ results = [i \in 1..Len(rs) |-> rs[i].status]
          /\ total = Output(rs).summary.total
          /\ passed = Output(rs).summary.passed
          /\ failed = Output(rs).summary.failed
          /\ skipped = Output(rs).summary.skipped
    /\ report = NoReport

\* line 649
WriteReport ==
    /\ pc = "write_report"
    /\ report' = write_markdown_report(output)
    /\ pc' = "done"
    /\ UNCHANGED <<state, tc, calls, pair, warm, sent, exch, held, result, results,
                   total, passed, failed, skipped, output>>

NextReport == WriteReport

SpecReport == InitReport /\ [][NextReport]_vars


---------------------------------------------------------------------------
(* Properties *)

IsSkipId(id) == id \in SKIP_TOTP_TESTS \/ id \in DOMAIN SKIP_MISSING_SEED

\* a case is being run (run_test has been entered and main has not yet
\* recorded its Result)
Running == tc # NoCase

Own(s) == SelectSeq(s, LAMBDA q : q.kind # "bootstrap")
Boot(s) == SelectSeq(s, LAMBDA q : q.kind = "bootstrap")

WithMarker(case) ==
    "Authorization" \in DOMAIN case.headers
      /\ HasLiveMarker(case.headers["Authorization"].s)

\* C1: a case whose id is in SKIP_TOTP_TESTS or SKIP_MISSING_SEED issues no HTTP
\* request at all (whatever the endpoint's auth_required, the repeat count and
\* the Session State) and returns a Result with status "skip" whose reason is
\* the string configured for that id.
C1_SkipIssuesNoRequest ==
    (Running /\ IsSkipId(tc.id)) =>
        /\ sent = <<>>
        /\ pc \in {"run_test", "ret"}
        /\ pc = "ret" =>
             /\ result.status = "skip"
             /\ result.test_id = tc.id
             /\ result.assertions = <<>>
             /\ result.error =
                  Str(<<IF tc.id \in SKIP_TOTP_TESTS
                        THEN "Requires valid TOTP generation (cannot automate)"
                        ELSE SKIP_MISSING_SEED[tc.id]>>)

\* C1 witness: a skipped case of an auth-required endpoint, with a repeat count,
\* has returned while no credential is held.
C1_Witness ==
    /\ pc = "ret" /\ tc.id = "LOGIN-011" /\ tc.auth_required /\ tc.repeat > 1
    /\ ~Truthy(state.access_token)
    /\ result.status = "skip" /\ sent = <<>>

Definite(assertions) == SelectSeq(assertions, LAMBDA a : a.passed # JNull)

\* C2: a returned Result is "pass" exactly when it has at least one assertion
\* with a non-null outcome and every such assertion is true.
C2_PassIffDefiniteAllTrue ==
    pc = "ret" =>
        (result.status = "pass" <=>
            /\ Definite(result.assertions) # <<>>
            /\ \A i \in 1..Len(result.assertions) :
                  result.assertions[i].passed \in {JTrue, JNull})

\* C2 witness: a passing Result that also carries an informational assertion.
C2_Witness ==
    /\ pc = "ret" /\ result.status = "pass"
    /\ \E i \in 1..Len(result.assertions) : result.assertions[i].passed = JNull
    /\ Len(Definite(result.assertions)) >= 2

\* C3: when the primary request fails at the transport level, run_test returns a
\* Result "fail" with actual_status null, response body null and the single
\* assertion "request execution" = false, and main() records it and goes on.
C3_TransportFailureIsFail ==
    (exch.who = "primary" /\ ~exch.resp.ok) =>
        /\ pc = "ret"
        /\ result.status = "fail"
        /\ result.actual_status = JNull
        /\ result.response_body = JNull
        /\ Len(result.assertions) = 1
        /\ result.assertions[1].check = <<"request execution">>
        /\ result.assertions[1].passed = JFalse
        /\ ENABLED MainRecord

\* C3 witness: the primary request of a case timed out.
C3_Witness ==
    /\ pc = "ret" /\ exch.who = "primary" /\ exch.resp.err = "Timeout"
    /\ result.status = "fail"

\* C4 (as claimed): whatever the server answers, no test case aborts the run:
\* the process never dies of an uncaught exception, and at the end of the plan
\* every case has a recorded Result.
C4_RunNeverAborts ==
    /\ pc # "crashed"
    /\ pc = "done" => Len(results) = total

C6_BearerIsLastCredential ==
    [][ (Len(sent') = Len(sent) + 1 /\ sent'[Len(sent')].kind # "bootstrap"
           /\ WithMarker(tc) /\ held # JNull)
        => sent'[Len(sent')].headers["Authorization"] = Str(<<"Bearer ">> \o held.s) ]_vars

\* C6 witness: the second case of the plan was sent with the credential the
\* first case's login returned.
C6_Witness ==
    /\ pc = "ret" /\ total = 2 /\ WithMarker(tc)
    /\ tc.url \notin {<<"/auth/login">>, <<"/auth/refresh">>}
    /\ held = T1
    /\ sent[Len(sent)].kind = "primary"
    /\ sent[Len(sent)].headers["Authorization"] = Str(<<"Bearer ", "t1">>)

\* C7 (as claimed): while no credential is held, a case with a live-token marker
\* resolves its Authorization header to the one fixed, non-empty sentinel
\* "Bearer __NO_TOKEN_AVAILABLE__", and its request is still issued: at the
\* primary call no resolver raises, which is what enables the call.
C7_SentinelAndRequestIssued ==
    ~Truthy(state.access_token) =>
        /\ \A case \in Cases :
              WithMarker(case) =>
                 resolve_headers(state, case.headers)["Authorization"]
                    = Str(<<"Bearer ", "__NO_TOKEN_AVAILABLE__">>)
        /\ (pc = "primary" /\ WithMarker(tc)) =>
              /\ ~resolve_url(state, tc.url).raised
              /\ ~resolve_body(state, tc.body).raised

\* a response of a shape the capture code looks for: a login success envelope
\* (bootstrap login, or a case on /auth/login), a 200 of /auth/refresh, or a
\* 200/201 of a POST on /system/users
Recognised(e, case) ==
    /\ e.who \in {"bootstrap", "primary"}
    /\ e.resp.ok
    /\ \/ /\ e.who = "bootstrap" \/ case.url = <<"/auth/login">>
          /\ e.resp.status = 200
          /\ Truthy(SafeGet(e.resp.body, "success"))
       \/ /\ e.who = "primary"
          /\ case.url = <<"/auth/refresh">>
          /\ e.resp.status = 200
       \/ /\ e.who = "primary"
          /\ case.method = "POST"
          /\ \E i \in 1..Len(case.url) : case.url[i] = "/system/users"
          /\ e.resp.status \in {200, 201}

RECURSIVE SameShape(_, _)
\* b has the keys and nesting of the template a, and the template's text
\* wherever it holds no placeholder
SameShape(a, b) ==
    IF a.t = "obj"
    THEN /\ b.t = "obj"
         /\ DOMAIN b.o = DOMAIN a.o
         /\ \A k \in DOMAIN a.o : SameShape(a.o[k], b.o[k])
    ELSE IF a.t = "str"
    THEN /\ b.t = "str"
         /\ (\A i \in 1..Len(a.s) : a.s[i] \notin MarkerTokens) => b = a
    ELSE b = a

\* C9 (as claimed): in every reachable Session State, resolve_body returns, for
\* every body template of the plan, data of the template's shape, and never raises.
C9_ResolveBodyKeepsShape ==
    \A case \in Cases :
        /\ ~resolve_body(state, case.body).raised
        /\ SameShape(case.body, resolve_body(state, case.body).val)

\* C10 (as claimed): a non-skipped case without a repeat count performs exactly
\* one HTTP call, whatever auth_required, the id and the Session State.
C10_ExactlyOneCallInTotal ==
    (pc = "ret" /\ ~IsSkipId(tc.id) /\ tc.repeat <= 1) => Len(sent) = 1

\* C10 (amended): a non-skipped case without a repeat count never issues more
\* than one request of its own, the primary call, and has issued exactly that
\* one when run_test returns.  Any other request is a bootstrap login (POST
\* /auth/login) sent before it: none for a case that makes no ensure_login
\* call, at most two per ensure_login call otherwise.
C10_OnePrimaryCall ==
    (Running /\ ~IsSkipId(tc.id) /\ tc.repeat <= 1) =>
        /\ sent = Boot(sent) \o Own(sent)
        /\ Len(Own(sent)) <= 1
        /\ \A i \in 1..Len(Own(sent)) : Own(sent)[i].kind = "primary"
        /\ \A i \in 1..Len(Boot(sent)) :
              Boot(sent)[i].method = "POST" /\ Boot(sent)[i].url = <<"/auth/login">>
        /\ Len(Boot(sent)) <= (IF tc.auth_required THEN 2 ELSE 0)
                                + (IF tc.id \in {"REFRESH-001", "LOGOUT-001"} THEN 2 ELSE 0)
        /\ exch.who = "primary" => Len(Own(sent)) = 1
        /\ pc = "ret" => Len(Own(sent)) = 1

\* C10 witness: LOGOUT-001 of an auth-required endpoint returned after two
\* ensure_login calls of two login attempts each, and one primary call.
C10_Witness ==
    /\ pc = "ret" /\ tc.id = "LOGOUT-001" /\ tc.repeat = 1
    /\ Len(Boot(sent)) = 4 /\ Len(Own(sent)) = 1
    /\ result.status \in {"pass", "fail"}

\* the Set-Cookie text sc sets the cookie c and, among the attributes of that
\* same cookie, carries Max-Age=0 or an Expires date at the epoch
ClearsCookie(sc, c) ==
    \E k \in 1..Len(Split(sc, ",")) :
        LET parts == Split(Split(sc, ",")[k], ";") IN
        /\ StartsWith(Strip(parts[1]), <<c, "=">>)
        /\ \E i \in 2..Len(parts) :
              LowerSeq(Strip(parts[i])) \in
                 {<<"max-age", "=", "0">>} \cup {<<"expires", "=", d>> : d \in EpochDates}

\* the outcomes of the "cookie cleared" assertions of a Result
ClearedOutcomes(res) ==
    {res.assertions[i].passed :
        i \in {j \in 1..Len(res.assertions) :
                 res.assertions[j].check = <<"cookie cleared", tc.expected.cookie_cleared>>}}

\* C11 (as claimed): for a case that declares cookie_cleared = c and whose
\* request got a response, the "cookie cleared" assertion passes exactly when
\* the Set-Cookie header sets c with a zero-max-age or expiry-in-the-past marker
\* for that cookie, and fails otherwise.
C11_ClearedIffMarkerForCookie ==
    (pc = "ret" /\ tc.expected.cookie_cleared # "" /\ exch.who = "primary" /\ exch.resp.ok) =>
        LET cleared == ClearsCookie(exch.resp.set_cookie, tc.expected.cookie_cleared) IN
        /\ (JTrue \in ClearedOutcomes(result)) <=> cleared
        /\ ~cleared => JFalse \in ClearedOutcomes(result)

RECURSIVE Reached(_, _)
\* the values that following the keys through obj reaches: one, or none when
\* a key is absent or the value on the way is not an object
Reached(obj, keys) ==
    IF keys = <<>> THEN {obj}
    ELSE IF obj.t = "obj" /\ K(Head(keys)) \in DOMAIN obj.o
         THEN Reached(obj.o[K(Head(keys))], Tail(keys))
         ELSE {}

\* the assertion of the i-th exact-value requirement of the running case
ExactAssertion(i) == result.assertions[1 + Len(tc.expected.body_contains) + i]

\* C12 (as claimed): each exact-value requirement (p, v) passes exactly when
\* following p through the response body reaches a value strictly equal to v,
\* a JSON value of the same type and content; when p is absent the assertion
\* fails and reports actual None.
C12_ExactIffStrictlyEqual ==
    (pc = "ret" /\ exch.who = "primary" /\ exch.resp.ok) =>
        \A i \in 1..Len(tc.expected.body_exact) :
            LET p == tc.expected.body_exact[i][1]
                v == tc.expected.body_exact[i][2]
            IN /\ ExactAssertion(i).check = <<"body ==">> \o p
               /\ ExactAssertion(i).passed = JBool(v \in Reached(exch.resp.body, p))
               /\ Reached(exch.resp.body, p) = {} => ExactAssertion(i).actual = JNull

\* the two login scenarios hold: 200 with the expected email passes with both
\* assertions true, 401 with an error body fails with both assertions false
\* and actual None
C12_LoginScenarios ==
    (pc = "ret" /\ tc.id = "LOGIN-001" /\ exch.who = "primary" /\ exch.resp.ok) =>
        /\ Len(result.assertions) = 2
        /\ (exch.resp.status = 200
              /\ Reached(exch.resp.body, <<"data", "user", "email">>) = {AdminEmail})
             => /\ result.status = "pass"
                /\ result.assertions[1].passed = JTrue
                /\ result.assertions[2].passed = JTrue
        /\ (exch.resp.status = 401
              /\ Reached(exch.resp.body, <<"data", "user", "email">>) = {})
             => /\ result.status = "fail"
                /\ result.assertions[1].passed = JFalse
                /\ result.assertions[2].passed = JFalse
                /\ result.assertions[2].actual = JNull

\* the number of recorded Results whose status is in S
CountStatus(S) == Cardinality({i \in 1..Len(results) : results[i] \in S})

\* main() is between two test cases, or past the last one
BetweenCases == pc \in {"main", "done"}

HandsOutCredential(e, case) ==
    \/ e.who = "bootstrap" /\ IsLoginSuccess(e.resp)
    \/ e.who = "primary" /\ case.url = <<"/auth/login">> /\ IsLoginSuccess(e.resp)
    \/ e.who = "primary" /\ case.url = <<"/auth/refresh">> /\ IsRefreshSuccess(e.resp)

\* C14 (as claimed): every step that changes the held credential is a login
\* response without a second-factor requirement, or a refresh response, and
\* the new held credential is the access credential it returned; a login
\* response that requires a second factor or carries no credential never
\* changes it, for test-case logins and the bootstrap login alike.  Hence the
\* held credential, when present, is always such a returned value.
C14_HeldCredentialWasReturned ==
    [][ state'.access_token # state.access_token
          => /\ HandsOutCredential(exch', tc)
             /\ state'.access_token = Credential(exch'.resp) ]_vars

\* C15 (as claimed): every step that replaces the held session-continuation
\* cookie by a newly captured value, in run_test or in the bootstrap login,
\* leaves the value held before in the prior-cookie slot.
C15_ReplacedCookieIsDemoted ==
    [][ state'.refresh_cookie_value # state.refresh_cookie_value
          => state'.old_refresh_cookie_value = state.refresh_cookie_value ]_vars

\* the step is the primary call of the running case, answered by a response
PrimaryAnswered == pc = "primary" /\ exch'.who = "primary" /\ exch'.resp.ok

\* C16: the capture from a refresh response (request URL /auth/refresh,
\* status 200) changes at most the held credential, the current cookie and
\* the prior cookie; principal id, tenant id and the created-resource list
\* stay as they were.
C16_RefreshKeepsIdentity ==
    [][ (PrimaryAnswered /\ tc.url = <<"/auth/refresh">> /\ exch'.resp.status = 200)
          => /\ state'.admin_user_id = state.admin_user_id
             /\ state'.company_id = state.company_id
             /\ state'.created_user_ids = state.created_user_ids ]_vars

\* C16 witness: a refresh response replaced the credential and rotated the
\* cookie while a principal and a tenant were held.
C16_Witness ==
    /\ pc = "ret" /\ tc.url = <<"/auth/refresh">>
    /\ exch.who = "primary" /\ exch.resp.status = 200
    /\ state.access_token = T2
    /\ state.refresh_cookie_value = Str(<<"r2">>)
    /\ state.old_refresh_cookie_value = Str(<<"r1">>)
    /\ state.admin_user_id = U1 /\ state.company_id = C1

\* C17 (as claimed): while a credential is held, no step of ensure_login
\* sends a request or changes a field of Session State: login requests are
\* sent only in a state where no credential is held.
C17_NoBootstrapWhileCredentialHeld ==
    [][ (pc = "ensure_login" /\ Truthy(state.access_token))
          => (sent' = sent /\ state' = state) ]_vars

\* a resource-creation response, by method, URL shape, status and identifier
IsCreation(case, r) ==
    /\ case.method = "POST"
    /\ \E i \in 1..Len(case.url) : case.url[i] = "/system/users"
    /\ r.status \in {200, 201}
    /\ Truthy(SafeGet(SafeGet(r.body, "data"), "id"))

\* C18: a response to a POST on a URL containing /system/users, with status
\* 200 or 201 and an identifier, appends that identifier at the end of the
\* created-resources list, whatever the id of the test case; every other
\* response and every other step leaves the list as it was.
C18_CreatedListAppendOnly ==
    [][ IF PrimaryAnswered /\ IsCreation(tc, exch'.resp)
        THEN state'.created_user_ids =
                Append(state.created_user_ids, exch'.resp.body.o[K("data")].o[K("id")])
        ELSE state'.created_user_ids = state.created_user_ids ]_vars

\* C18 witness: the list holds two identifiers, the second appended by a case
\* whose id is not that of a creation test, on a POST under /system/users.
C18_Witness ==
    /\ pc = "ret" /\ tc.id = "MFA-SETUP-001" /\ tc.method = "POST"
    /\ exch.who = "primary" /\ IsCreation(tc, exch.resp)
    /\ state.created_user_ids = <<U1, U1>>

\* the identifier that takes the place of :id, in priority order
UrlId(st) ==
    IF st.created_user_ids # <<>> THEN Last(st.created_user_ids)
    ELSE IF Truthy(st.admin_user_id) THEN st.admin_user_id
    ELSE Str(FallbackUserId)

\* C19 (as claimed): in every reachable Session State resolve_url returns,
\* for every URL of the plan, the URL with :id replaced by the most recently
\* created resource id, else the held principal id, else the stand-in
\* identifier, and the URL itself when it holds no :id.
C19_ResolveUrlByPriority ==
    \A case \in Cases :
        resolve_url(state, case.url) =
            Ok(IF Contains(case.url, ":id")
               THEN Replace(case.url, ":id", PyStr(UrlId(state)))
               ELSE case.url)

\* the value a cookie template stands for
CookieFor(st, tpl) ==
    CASE tpl = <<"<valid-refresh-token>">> ->
            IF st.refresh_cookie_value # JNull
            THEN st.refresh_cookie_value ELSE Str(<<"no-valid-cookie">>)
      [] tpl = <<"<already-revoked-token>">> ->
            IF st.old_refresh_cookie_value # JNull
            THEN st.old_refresh_cookie_value ELSE Str(<<"revoked-placeholder">>)
      [] Head(tpl) = "<" /\ Last(tpl) = ">" -> Str(<<"invalid-placeholder-token">>)
      [] OTHER -> Str(tpl)

\* C20: the primary request of a case carries, for each declared cookie, the
\* held cookie value (or "no-valid-cookie") for <valid-refresh-token>, the
\* prior cookie value (or "revoked-placeholder") for <already-revoked-token>,
\* "invalid-placeholder-token" for any other bracketed template, and a literal
\* value unchanged.
C20_CookiesResolved ==
    [][ (pc = "primary" /\ Len(sent') = Len(sent) + 1)
          => sent'[Len(sent')].cookies =
                [c \in DOMAIN tc.cookies |-> CookieFor(state, tc.cookies[c])] ]_vars

\* C20 witness: after a cookie rotation, a request was sent with the held
\* cookie, the prior cookie, the stand-in of an unknown template and a literal.
C20_Witness ==
    /\ pc = "ret" /\ tc.id = "LOGOUT-001"
    /\ sent # <<>> /\ Last(sent).kind = "primary"
    /\ Last(sent).cookies =
          [nexa_refresh_token |-> Str(<<"r2">>),
           old_refresh_token |-> Str(<<"r1">>),
           session |-> Str(<<"invalid-placeholder-token">>),
           theme |-> Str(<<"dark">>)]


\* the marker categories of an Authorization template other than the live one
MarkerCategory(val) ==
    CASE Contains(val, "<expired-access-token>") -> "expired"
      [] Contains(val, "<mfa-enabled-user-token>") -> "mfa-user"
      [] Contains(val, "<user-without-mfa-secret-token>") -> "no-secret"
      [] Contains(val, "<viewer-token>") \/ Contains(val, "<staff-token>") -> "low-role"
      [] OTHER -> "none"

NonLiveCategories == {"expired", "mfa-user", "no-secret", "low-role"}

\* Authorization templates that hold no live-token marker: one per marker of
\* lines 168-175, and one with a marker the resolver does not know
NonLiveTemplates ==
    {<<"Bearer ", m>> :
        m \in {"<expired-access-token>", "<mfa-enabled-user-token>",
               "<user-without-mfa-secret-token>", "<viewer-token>", "<staff-token>",
               "<manager-token>"}}

\* what each template resolves to in the empty Session State
SentinelTable == [v \in NonLiveTemplates |-> resolve_authorization(State, v)]

\* two templates have the same sentinel exactly when they are of the same
\* category; no sentinel is the template itself, empty, or the no-token sentinel
SentinelsDistinct ==
    \A v \in NonLiveTemplates :
        /\ MarkerCategory(v) \in NonLiveCategories =>
              /\ SentinelTable[v] \notin {v, <<>>, NoTokenSentinel}
              /\ \A w \in NonLiveTemplates :
                    (SentinelTable[v] = SentinelTable[w])
                       <=> MarkerCategory(v) = MarkerCategory(w)
        /\ MarkerCategory(v) = "none" => SentinelTable[v] = v

\* C21: a template of one of the four non-live marker categories resolves, in
\* every Session State, to the value it resolves to in the empty Session State;
\* two templates resolve to the same value exactly when they are of the same
\* category, and none resolves to the no-token sentinel; a template with no
\* recognised marker resolves to itself.  Every warm-up and primary request
\* of such a case carries that value.
C21_NonLiveSentinelsFixedAndDistinct ==
    /\ SentinelsDistinct
    /\ \A v \in NonLiveTemplates : resolve_authorization(state, v) = SentinelTable[v]
    /\ ("Authorization" \in DOMAIN tc.headers /\ ~WithMarker(tc)) =>
          \A i \in 1..Len(sent) :
             sent[i].kind # "bootstrap" =>
                sent[i].headers["Authorization"] =
                   Str(SentinelTable[tc.headers["Authorization"].s])

\* C21 witness: while a credential is held, the request of a case with the
\* low-privilege marker was sent with the low-privilege sentinel.
C21_Witness ==
    /\ pc = "ret" /\ Truthy(state.access_token)
    /\ tc.headers = Auth("<viewer-token>")
    /\ Last(sent).kind = "primary"
    /\ Last(sent).headers["Authorization"] = Str(<<"Bearer ", "__LOW_ROLE_TOKEN__">>)


\* the place of an assertion's kind in the fixed order
Rank(a) ==
    CASE Head(a.check) = "status code" -> 1
      [] Head(a.check) = "body contains" -> 2
      [] Head(a.check) = "body ==" -> 3
      [] Head(a.check) = "header present" -> 4
      [] Head(a.check) = "cookie set" -> 5
      [] Head(a.check) = "cookie NOT set" -> 6
      [] Head(a.check) = "cookie cleared" -> 7
      [] Head(a.check) = "db_verification (manual)" -> 8
      [] OTHER -> 0

\* run_test returned a Result computed from the response of the primary call
Scored == pc = "ret" /\ exch.who = "primary" /\ exch.resp.ok

\* C22: in every scored Result the assertions are in the order status code,
\* body-contains, exact-value, required headers, cookie set, cookie not set,
\* cookie cleared, manual-DB note; the status-code assertion is the first and
\* the only one of its kind; the manual-DB assertion is there exactly when the
\* case carries the note, is last, is the only one with a null outcome, and
\* the Result's status is the one the case gets without the note.
C22_AssertionsInFixedOrder ==
    Scored =>
        LET a == result.assertions IN
        /\ a # <<>> /\ Rank(a[1]) = 1
        /\ \A i \in 2..Len(a) : Rank(a[i]) >= 2 /\ Rank(a[i]) >= Rank(a[i - 1])
        /\ \A i \in 1..Len(a) : (a[i].passed = JNull) <=> (Rank(a[i]) = 8)
        /\ \A i \in 1..Len(a) : Rank(a[i]) = 8 => i = Len(a)
        /\ tc.db_verification <=> Rank(a[Len(a)]) = 8
        /\ result.status = score([tc EXCEPT !.db_verification = FALSE], exch.resp).status

\* C22 witness: a failed Result with assertions of seven kinds, the manual-DB
\* note last after a failed cookie assertion.
C22_Witness ==
    /\ Scored /\ result.status = "fail"
    /\ {Rank(result.assertions[i]) : i \in 1..Len(result.assertions)} = {1, 2, 3, 4, 5, 6, 8}
    /\ result.assertions[Len(result.assertions) - 1].passed = JFalse
    /\ result.assertions[Len(result.assertions)].passed = JNull


\* the assertion of the i-th body-contains requirement of the running case
ContainsAssertion(i) == result.assertions[1 + i]

\* C23 (as claimed): each body-contains requirement f passes exactly when f
\* is present at the top level of the response body or under data (path
\* data.f), and fails only when both lookups find nothing.
C23_ContainsIffPresent ==
    Scored =>
        \A i \in 1..Len(tc.expected.body_contains) :
            LET f == tc.expected.body_contains[i] IN
            /\ ContainsAssertion(i).check = <<"body contains">> \o f
            /\ ContainsAssertion(i).passed =
                  JBool(Reached(exch.resp.body, f) # {}
                          \/ Reached(exch.resp.body, <<"data">> \o f) # {})


\* apart from a value that is the text __MISSING__ itself, presence decides:
\* the assertion passes exactly when one of the two lookups reaches a value
C23_PresenceDecidesOtherwise ==
    Scored =>
        \A i \in 1..Len(tc.expected.body_contains) :
            LET f == tc.expected.body_contains[i]
                top == Reached(exch.resp.body, f)
                env == Reached(exch.resp.body, <<"data">> \o f)
            IN MISSING \notin (top \cup env) =>
                  ContainsAssertion(i).passed = JBool(top # {} \/ env # {})


\* C24 (as claimed): once the primary call of a repeated case is issued, each
\* warm-up call issued before it was the same request: same method, same
\* resolved URL, same resolved headers, same resolved body, same resolved
\* cookies.
C24_WarmUpsSameAsScoredCall ==
    (Running /\ sent # <<>> /\ Last(sent).kind = "primary") =>
        \A i \in 1..Len(sent) :
            sent[i].kind = "warmup" => [sent[i] EXCEPT !.kind = "primary"] = Last(sent)

\* what the warm-up calls do share with the scored call: method, resolved
\* headers and resolved body
C24_WarmUpsShareMethodHeadersBody ==
    (Running /\ sent # <<>> /\ Last(sent).kind = "primary") =>
        \A i \in 1..Len(sent) :
            sent[i].kind = "warmup" =>
                /\ sent[i].method = Last(sent).method
                /\ sent[i].headers = Last(sent).headers
                /\ sent[i].body = Last(sent).body


\* the report has been written
Written == pc = "done" /\ report # NoReport

\* the Results of out that are not skipped
Executed(out) == SelectSeq(out.results, LAMBDA r : r.status # "skip")

\* C25: the reported pass rate is the number of passed cases times 100 over
\* total minus skipped, which is the number of passed and failed cases; it is
\* the rate of the same output with its skipped Results removed; it is "N/A"
\* exactly when no case was executed.
C25_PassRateOverExecuted ==
    Written =>
        LET s == output.summary IN
        /\ s.total - s.skipped = s.passed + s.failed
        /\ (s.total - s.skipped = 0) <=> (report.pass_rate = <<"N/A">>)
        /\ s.total - s.skipped > 0 =>
              report.pass_rate = <<ToString((s.passed * 100) \div (s.passed + s.failed)), "%">>
        /\ report.pass_rate = write_markdown_report(Output(Executed(output))).pass_rate

\* C25 witness: one case passed of two executed, next to a skipped one: 50%.
C25_Witness ==
    /\ Written
    /\ output.summary = [total |-> 3, passed |-> 1, failed |-> 1, skipped |-> 1]
    /\ report.pass_rate = <<"50", "%">>

\* C26 (as claimed): an endpoint's tag is PASS exactly when at least one case
\* passed and none failed, PARTIAL exactly when some passed and some failed,
\* and FAIL exactly when at least one case failed and none passed, skipped
\* cases counting as neither.
C26_RollupTriState ==
    Written =>
        \A i \in 1..Len(report.by_ep) :
            LET sec == report.by_ep[i]
                p == Cardinality({k \in 1..Len(sec.tests) : sec.tests[k].status = "pass"})
                f == Cardinality({k \in 1..Len(sec.tests) : sec.tests[k].status = "fail"})
            IN /\ sec.tag = "PASS" <=> (p > 0 /\ f = 0)
               /\ sec.tag = "PARTIAL" <=> (p > 0 /\ f > 0)
               /\ sec.tag = "FAIL" <=> (f > 0 /\ p = 0)

\* whenever an endpoint has a passed or a failed case, the tag is as claimed
C26_RollupWhenSomeCaseExecuted ==
    Written =>
        \A i \in 1..Len(report.by_ep) :
            LET sec == report.by_ep[i]
                p == Cardinality({k \in 1..Len(sec.tests) : sec.tests[k].status = "pass"})
                f == Cardinality({k \in 1..Len(sec.tests) : sec.tests[k].status = "fail"})
            IN (p + f > 0) =>
                 /\ sec.tag = "PASS" <=> (p > 0 /\ f = 0)
                 /\ sec.tag = "PARTIAL" <=> (p > 0 /\ f > 0)
                 /\ sec.tag = "FAIL" <=> (f > 0 /\ p = 0)


\* C27: in every step whose capture changes Session State (the steps in which
\* the state before and the state after the call differ), the primary request
\* is the plan's request resolved against the Session State as it is before
\* the call (URL, headers, body, cookies);
\* what the response hands out (a credential, a created id) is in Session
\* State after the call, whatever the Result's status; outside a bootstrap
\* login and the return of the primary call no step writes Session State, so
\* the state a case resolves against is the one the earlier cases left, plus
\* its own bootstrap login, and its own capture is read by the next case.
C27_ResolveBeforeCaptureAfter ==
    [][ IF pc = "primary"
        THEN exch'.who = "primary" =>
               /\ Len(sent') = Len(sent) + 1
               /\ Last(sent').kind = "primary" /\ Last(sent').method = tc.method
               /\ state' # state =>
                     /\ exch'.resp.ok
                     /\ Last(sent') =
                           Request("primary", tc.method, resolve_url(state, tc.url).val,
                                   resolve_headers(state, tc.headers),
                                   resolve_body(state, tc.body).val,
                                   resolve_cookies(state, tc.cookies))
               /\ HandsOutCredential(exch', tc) =>
                     state'.access_token = Credential(exch'.resp)
               /\ (exch'.resp.ok /\ IsCreation(tc, exch'.resp)) =>
                     /\ state'.created_user_ids # <<>>
                     /\ Last(state'.created_user_ids) =
                           SafeGet(SafeGet(exch'.resp.body, "data"), "id")
        ELSE IF pc = "ensure_login"
        THEN state' # state => exch'.resp.ok
        ELSE /\ state' = state
             /\ (pc = "warmup" /\ Len(sent') = Len(sent) + 1) =>
                   /\ Last(sent').headers = resolve_headers(state, tc.headers)
                   /\ Last(sent').body = resolve_body(state, tc.body).val ]_vars

\* C27 witness: the first case failed its assertions (a login expected to be
\* refused was answered with a credential), and the second case's request
\* was resolved with the credential captured from it.
C27_Witness ==
    /\ pc = "ret" /\ total = 2
    /\ results = <<"fail">>
    /\ WithMarker(tc) /\ ~tc.auth_required
    /\ held = T1
    /\ Last(sent).kind = "primary"
    /\ Last(sent).headers["Authorization"] = Str(<<"Bearer ", "t1">>)
    /\ Len(sent) = 1


\* the step sends a bootstrap login request
SendsBootstrap == Len(sent') = Len(sent) + 1 /\ Last(sent').kind = "bootstrap"

\* C28 (as claimed): from a state that holds a non-empty credential, every
\* step leads to a state that holds a non-empty credential, and no step
\* sends a bootstrap login request.
C28_CredentialStaysAndNoBootstrap ==
    [][ Truthy(state.access_token) =>
           (Truthy(state'.access_token) /\ ~SendsBootstrap) ]_vars

\* outside the second login attempt of one ensure_login call, a held
\* credential stays held and no bootstrap login request is sent
C28_HoldsOutsideSecondAttempt ==
    [][ (Truthy(state.access_token) /\ ~(pc = "ensure_login" /\ pair = 2)) =>
           (Truthy(state'.access_token) /\ ~SendsBootstrap) ]_vars


\* the ids of the plan's cases that lines 127 and 132 name
SkippedInPlan == {"LOGIN-014", "LOGIN-011"}

\* C29: while a case with a configured skip id is being run, from its start
\* to the recording of its Result, no step changes Session State or sends a
\* request, whatever the endpoint's auth_required flag: run_test goes from
\* its entry straight to its return.
C29_SkipLeavesStateUnchanged ==
    /\ [][ (Running /\ (tc.id \in SkippedInPlan \/ IsSkipId(tc.id))) =>
              (state' = state /\ sent' = sent /\ pc' \in {"ret", "main"}) ]_vars
    /\ [][ tc' # tc => state' = state ]_vars

\* C29 witness: a skipped case of an auth-required endpoint has returned
\* while no credential is held, after an earlier case left a cookie.
C29_Witness ==
    /\ pc = "ret" /\ total = 2 /\ tc.id = "LOGIN-014" /\ tc.auth_required
    /\ result.status = "skip"
    /\ ~Truthy(state.access_token)
    /\ state.refresh_cookie_value = Str(<<"r2">>)


\* C30 (as claimed): a step from a state that holds a principal id leads to
\* a state that holds a principal id, and likewise for the tenant id: no
\* write, by a test case's login capture or by the bootstrap login, stores
\* an empty value over a held identifier.
C30_IdentityNeverReset ==
    [][ /\ Truthy(state.admin_user_id) => Truthy(state'.admin_user_id)
        /\ Truthy(state.company_id) => Truthy(state'.company_id) ]_vars

\* the captures of run_test never reset a held principal or tenant id
C30_CaptureNeverResets ==
    [][ pc # "ensure_login" =>
          /\ Truthy(state.admin_user_id) => Truthy(state'.admin_user_id)
          /\ Truthy(state.company_id) => Truthy(state'.company_id) ]_vars

=============================================================================
